---------------------------- MODULE Spec2Model ----------------------------
(***************************************************************************)
(* The four interactive widgets of src/src/App.js as state machines:       *)
(*   FractalExplorer, ProbabilitySimulator, GameTheory, TopologyViz.       *)
(* Each widget owns its React state; the widgets share nothing, so each    *)
(* is checked under its own specification, which leaves the other          *)
(* widgets' variables at their mount values.                               *)
(*                                                                         *)
(* A React event handler or timer callback runs to completion and its      *)
(* state updates commit together; the component re-renders before the next *)
(* handler runs.  One action is therefore one handler or one callback.     *)
(* (Where React renders between the setters of one timeout callback, the   *)
(* state after the callback is the same.)                                  *)
(* Variables whose names are not in the source (last*, n*, roundLog,       *)
(* pendingAtReset) are history variables: they record what happened and    *)
(* never influence the program's state.                                    *)
(***************************************************************************)
EXTENDS Integers, Sequences, FiniteSets, TLC

VARIABLES
    \* FractalExplorer (App.js:7-8)
    zoom,           \* in units of the slider's step: zoom = 2 is 1.0x
    iterations,
    canvas,         \* what the last render painted at the sampled pixels
    \* GameTheory (App.js:159-166)
    yourChoice, opponentChoice, scores, rounds, opponentStrategy,
    lastOpponentMove,
    roundLog,       \* history: the rounds played since the last strategy change
    lastGame,       \* history: the last GameTheory handler and its pre-state
    \* ProbabilitySimulator (App.js:87-89)
    trials, heads, history,
    timers,         \* the runMany bursts whose setTimeout callbacks are pending
    lastProb,       \* history: the last handler or callback and its pre-state
    nClicks,        \* history: "Flip Once" clicks so far
    nBursts,        \* history: "Flip 100x" clicks so far
    nResets,        \* history: "Reset" clicks so far
    pendingAtReset, \* history: callbacks pending at the last "Reset" click
    \* TopologyViz (App.js:269-270)
    shape, rotation,
    lastTopo        \* history: the last TopologyViz event and the angle before it

gameVars == <<yourChoice, opponentChoice, scores, rounds, opponentStrategy,
              lastOpponentMove, roundLog, lastGame>>
fractalVars == <<zoom, iterations, canvas>>
probVars == <<trials, heads, history, timers, lastProb, nClicks, nBursts,
              nResets, pendingAtReset>>
topoVars == <<shape, rotation, lastTopo>>
vars == <<fractalVars, probVars, gameVars, topoVars>>

\* JavaScript null.
NULL == "null"

(***************************************************************************)
(* Bounds of the model.                                                    *)
(***************************************************************************)
\* Rounds played between two strategy changes.
MaxRounds == 4
\* Clicks on the ProbabilitySimulator's three buttons in one run.
MaxClicks == 2
\* Callbacks one runMany schedules.  The source's loop runs 100 times
\* (App.js:101); every callback of a burst is the same closure, so the
\* model runs the same loop with a count small enough to explore every
\* interleaving of the callbacks with clicks, resets and a second burst.
BurstSize == 2
\* The render is observed at every PixelStride-th column and row.
PixelStride == 200
\* Fixed-point units per 1.0 in the model of the renderer's arithmetic.
Scale == 1024
\* SpecHistory starts from the states reached by HistoryKeep - 1 up to
\* HistoryKeep + PreSlack manual trials.
PreSlack == 2

(***************************************************************************)
(* FractalExplorer                                                         *)
(*                                                                         *)
(* The renderer computes in IEEE doubles.  The model computes the same     *)
(* expressions in fixed point, a real v held as the integer v * Scale      *)
(* rounded down, so orbits differ from the doubles' in the last digits;    *)
(* the loop, its two exits and the colour choice are the source's.         *)
(***************************************************************************)
\* <canvas width={400} height={400}>
Width == 400
Height == 400

\* The zoom slider: min 1, max 10, step 0.5, in steps.
ZoomMin == 2
ZoomMax == 20
ZoomValues == ZoomMin..ZoomMax

\* The iterations slider: min 10, max 150, step 10.
IterationsMin == 10
IterationsMax == 150
IterationsStep == 10
IterationValues ==
    {n \in IterationsMin..IterationsMax : (n - IterationsMin) % IterationsStep = 0}

Columns == {x \in 0..(Width - 1) : x % PixelStride = 0}
Rows == {y \in 0..(Height - 1) : y % PixelStride = 0}
Pixels == Columns \X Rows

\* cx = (x - width / 2) / (width / 4) / zoom - 0.5, with zoom = z / 2.
Cx(x, z) == ((x - Width \div 2) * 2 * Scale) \div ((Width \div 4) * z) - Scale \div 2

\* cy = (y - height / 2) / (height / 4) / zoom
Cy(y, z) == ((y - Height \div 2) * 2 * Scale) \div ((Height \div 4) * z)

\* A plausible slip: the loop's bound test is <= instead of <.
RECURSIVE EscapeLoopOneMore(_, _, _, _, _, _)
EscapeLoopOneMore(zx, zy, i, cx, cy, n) ==
    IF zx * zx + zy * zy < 4 * Scale * Scale /\ i <= n
    THEN EscapeLoopOneMore((zx * zx - zy * zy) \div Scale + cx,
                           (2 * zx * zy) \div Scale + cy, i + 1, cx, cy, n)
    ELSE i

\* while (zx * zx + zy * zy < 4 && i < iterations) { ...; i++ }: the value
\* of i when the loop exits.
RECURSIVE EscapeLoop(_, _, _, _, _, _)
EscapeLoop(zx, zy, i, cx, cy, n) ==
    IF zx * zx + zy * zy < 4 * Scale * Scale /\ i < n
    THEN EscapeLoop((zx * zx - zy * zy) \div Scale + cx,
                    (2 * zx * zy) \div Scale + cy, i + 1, cx, cy, n)
    ELSE i

\* hue, saturation and lightness of the fillStyle; hue = (i / n) * 360 is
\* kept as the exact quotient.
Shade(i, n) ==
    [i |-> i,
     hue |-> [num |-> i * 360, den |-> n],
     saturation |-> IF i < n THEN 100 ELSE 0,
     lightness |-> IF i < n THEN 50 ELSE 0]

\* The body of the two for loops, for pixel (x, y).
Paint(x, y, z, n) == Shade(EscapeLoop(0, 0, 0, Cx(x, z), Cy(y, z), n), n)

\* The effect: the full raster scan, observed at the sampled pixels.
Render(z, n) == [p \in Pixels |-> Paint(p[1], p[2], z, n)]

\* After mount the effect has run once with the initial state.
InitFractal ==
    /\ zoom = 2
    /\ iterations = 50
    /\ canvas = Render(2, 50)

\* onChange of the zoom slider, and the effect its re-render runs.
setZoom(z) ==
    /\ zoom' = z
    /\ canvas' = Render(z, iterations)
    /\ UNCHANGED iterations

\* onChange of the iterations slider, and the effect its re-render runs.
setIterations(n) ==
    /\ iterations' = n
    /\ canvas' = Render(zoom, n)
    /\ UNCHANGED zoom

(***************************************************************************)
(* ProbabilitySimulator                                                    *)
(***************************************************************************)
\* h.slice(-50) keeps the last 50 entries.
HistoryKeep == 50

\* A ratio a / b of two non-negative integers, b > 0, kept exact.  IEEE
\* division is correctly rounded, so two such quotients are the same double
\* exactly when they are the same rational (for operands this small).
Ratio(a, b) == [num |-> a, den |-> b]

SameRatio(r, s) == r.num * s.den = s.num * r.den

\* The widget's state as a value.
ProbState(t, h, hist) == [trials |-> t, heads |-> h, history |-> hist]

MountState == ProbState(0, 0, <<>>)

\* h.slice(-k): the last k entries, all of h when it has fewer.
SliceLast(h, k) ==
    IF Len(h) <= k THEN h ELSE SubSeq(h, Len(h) - k + 1, Len(h))

\* A plausible slip: the new ratio is put first.
PushHistoryFront(h, r) == <<r>> \o SliceLast(h, HistoryKeep)

\* h => [...h.slice(-50), newRatio]
PushHistory(h, r) == Append(SliceLast(h, HistoryKeep), r)

\* newRatio, from the trials and heads the runTrial closure captured.
NewRatio(result, capTrials, capHeads) ==
    IF result THEN Ratio(capHeads + 1, capTrials + 1)
    ELSE Ratio(capHeads, capTrials + 1)

\* A plausible slip: setTrials(trials + 1) and setHeads(heads + 1) on the
\* captured values instead of the functional updates.
TrialStepCaptured(s, capTrials, capHeads, result) ==
    ProbState(capTrials + 1,
              IF result THEN capHeads + 1 ELSE s.heads,
              PushHistory(s.history, NewRatio(result, capTrials, capHeads)))

\* runTrial as a function of the committed state s, the (trials, heads) its
\* closure captured at render time, and result = (Math.random() > 0.5).
\* The three updates are functional updates of s (or read nothing of s but
\* the captured values) and commit together.
TrialStep(s, capTrials, capHeads, result) ==
    ProbState(s.trials + 1,
              IF result THEN s.heads + 1 ELSE s.heads,
              PushHistory(s.history, NewRatio(result, capTrials, capHeads)))

PendingCount == IF timers = <<>> THEN 0
                ELSE LET Sum[i \in 0..Len(timers)] ==
                            IF i = 0 THEN 0 ELSE Sum[i - 1] + timers[i].left
                     IN  Sum[Len(timers)]

\* Clicks so far, on any of the three buttons.
UserClicks == nClicks + nBursts + nResets

Current == ProbState(trials, heads, history)

Commit(s) ==
    /\ trials' = s.trials
    /\ heads' = s.heads
    /\ history' = s.history

Before(op, result) ==
    [op |-> op, result |-> result, trials |-> trials, heads |-> heads,
     history |-> history, pending |-> PendingCount]

InitProbFrom(s) ==
    /\ trials = s.trials
    /\ heads = s.heads
    /\ history = s.history
    /\ timers = <<>>
    /\ lastProb = [op |-> "mount", result |-> FALSE, trials |-> s.trials,
                   heads |-> s.heads, history |-> s.history, pending |-> 0]
    /\ nClicks = 0
    /\ nBursts = 0
    /\ nResets = 0
    /\ pendingAtReset = 0

InitProb == InitProbFrom(MountState)

\* onClick={runTrial}: the handler of the latest render, whose closure holds
\* the committed trials and heads.
flipOnce(result) ==
    /\ UserClicks < MaxClicks
    /\ Commit(TrialStep(Current, trials, heads, result))
    /\ lastProb' = Before("click", result)
    /\ nClicks' = nClicks + 1
    /\ UNCHANGED <<timers, nBursts, nResets, pendingAtReset>>

\* runMany: BurstSize times setTimeout(() => runTrial(), i * 10), every one
\* with the runTrial of the render runMany belongs to, so with the trials
\* and heads committed at the click.
runMany ==
    /\ UserClicks < MaxClicks
    /\ timers' = Append(timers, [trials |-> trials, heads |-> heads,
                                 left |-> BurstSize])
    /\ lastProb' = Before("runMany", FALSE)
    /\ nBursts' = nBursts + 1
    /\ UNCHANGED <<trials, heads, history, nClicks, nResets, pendingAtReset>>

\* timers without its k-th burst once that burst has no callback left.
AfterFire(k) ==
    IF timers[k].left = 1
    THEN SubSeq(timers, 1, k - 1) \o SubSeq(timers, k + 1, Len(timers))
    ELSE [timers EXCEPT ![k].left = @ - 1]

\* The next callback of the k-th pending burst fires.  The i-th callback of
\* a burst is due 10 * i after its click, so it runs after the i-th callback
\* of every earlier burst: an earlier burst has always fired more.  Beyond
\* that, the clicks' times are free, and so is the interleaving.
timerFire(k, result) ==
    /\ k \in DOMAIN timers
    /\ \A m \in 1..(k - 1) : timers[m].left < timers[k].left
    /\ Commit(TrialStep(Current, timers[k].trials, timers[k].heads, result))
    /\ timers' = AfterFire(k)
    /\ lastProb' = Before("timer", result)
    /\ UNCHANGED <<nClicks, nBursts, nResets, pendingAtReset>>

\* A plausible slip: reset forgets setHeads(0).
ResetStateKeepsHeads == ProbState(0, heads, <<>>)

\* A plausible slip: reset forgets setHistory([]).
ResetStateKeepsHistory == ProbState(0, 0, history)

\* The three setters of reset.
ResetState == ProbState(0, 0, <<>>)

\* reset: no timer id is kept and clearTimeout is never called, so the
\* scheduled callbacks stay scheduled.
reset ==
    /\ UserClicks < MaxClicks
    /\ Commit(ResetState)
    /\ lastProb' = Before("reset", FALSE)
    /\ nResets' = nResets + 1
    /\ pendingAtReset' = PendingCount
    /\ UNCHANGED <<timers, nClicks, nBursts>>

\* The states SpecHistory starts from: n manual trials after mount, their
\* draws all heads, all tails or alternating.
Patterns == {"heads", "tails", "alternate"}

Draw(pat, n) == pat = "heads" \/ (pat = "alternate" /\ n % 2 = 1)

\* k more manual trials from state s, each with the closure of the render
\* before it.  The first half is evaluated before the second is started
\* (the test on half.trials does that), which keeps the evaluation shallow.
RECURSIVE Replay(_, _, _)
Replay(s, k, pat) ==
    IF k = 0 THEN s
    ELSE IF k = 1
    THEN TrialStep(s, s.trials, s.heads, Draw(pat, s.trials + 1))
    ELSE LET half == Replay(s, k \div 2, pat)
         IN  IF half.trials >= 0 THEN Replay(half, k - (k \div 2), pat)
             ELSE half

PreLengths == {0} \cup ((HistoryKeep - 1)..(HistoryKeep + PreSlack))

Reached == {Replay(MountState, n, pat) : n \in PreLengths, pat \in Patterns}

InitHistory == \E s \in Reached : InitProbFrom(s)

(***************************************************************************)
(* GameTheory                                                              *)
(***************************************************************************)
strategies == {"cooperate", "defect", "tit-for-tat", "random"}

\* The argument of play(): the two buttons' onClick handlers.
Choices == {"cooperate", "defect"}

InitGame ==
    /\ yourChoice = NULL
    /\ opponentChoice = NULL
    /\ scores = [you |-> 0, opponent |-> 0]
    /\ rounds = 0
    /\ opponentStrategy = "tit-for-tat"
    /\ lastOpponentMove = NULL
    /\ roundLog = <<>>
    /\ lastGame = [op |-> "mount", arg |-> NULL,
                   scores |-> [you |-> 0, opponent |-> 0], rounds |-> 0]

\* A plausible slip: tit-for-tat answers the opponent's own last move.
OppMoveEcho(strategy, lastMove, coin) ==
    CASE strategy = "cooperate" -> "cooperate"
      [] strategy = "defect" -> "defect"
      [] strategy = "tit-for-tat" ->
            IF opponentChoice = NULL THEN "cooperate" ELSE opponentChoice
      [] strategy = "random" -> coin
      [] OTHER -> "cooperate"

\* The switch of play(): coin is the outcome of
\* Math.random() > 0.5 ? 'cooperate' : 'defect'; `lastMove || 'cooperate'`
\* takes 'cooperate' for null (the only falsy value the state ever holds).
OppMove(strategy, lastMove, coin) ==
    CASE strategy = "cooperate" -> "cooperate"
      [] strategy = "defect" -> "defect"
      [] strategy = "tit-for-tat" ->
            IF lastMove = NULL THEN "cooperate" ELSE lastMove
      [] strategy = "random" -> coin
      [] OTHER -> "cooperate"

\* A plausible slip: the two off-diagonal rows swapped.
PayoffSwapped(choice, oppMove) ==
    IF choice = "cooperate" /\ oppMove = "cooperate"
    THEN [you |-> 3, opponent |-> 3]
    ELSE IF choice = "cooperate" /\ oppMove = "defect"
    THEN [you |-> 5, opponent |-> 0]
    ELSE IF choice = "defect" /\ oppMove = "cooperate"
    THEN [you |-> 0, opponent |-> 5]
    ELSE [you |-> 1, opponent |-> 1]

\* The payoff matrix of play().
Payoff(choice, oppMove) ==
    IF choice = "cooperate" /\ oppMove = "cooperate"
    THEN [you |-> 3, opponent |-> 3]
    ELSE IF choice = "cooperate" /\ oppMove = "defect"
    THEN [you |-> 0, opponent |-> 5]
    ELSE IF choice = "defect" /\ oppMove = "cooperate"
    THEN [you |-> 5, opponent |-> 0]
    ELSE [you |-> 1, opponent |-> 1]

\* play(choice)
play(choice) ==
    /\ rounds < MaxRounds
    /\ \E coin \in Choices :
          LET oppMove == OppMove(opponentStrategy, lastOpponentMove, coin)
              points == Payoff(choice, oppMove)
          IN  /\ yourChoice' = choice
              /\ opponentChoice' = oppMove
              /\ lastOpponentMove' = choice
              /\ rounds' = rounds + 1
              /\ scores' = [you |-> scores.you + points.you,
                            opponent |-> scores.opponent + points.opponent]
              /\ roundLog' = Append(roundLog, [you |-> choice, opp |-> oppMove])
    /\ lastGame' = [op |-> "play", arg |-> choice,
                    scores |-> scores, rounds |-> rounds]
    /\ UNCHANGED opponentStrategy

\* A plausible slip: the selector forgets setLastOpponentMove(null).
ResetOnChangeKeepsMemory(s) ==
    /\ opponentStrategy' = s
    /\ scores' = [you |-> 0, opponent |-> 0]
    /\ rounds' = 0
    /\ UNCHANGED lastOpponentMove

\* The four setters of the selector's onChange.
ResetOnChange(s) ==
    /\ opponentStrategy' = s
    /\ scores' = [you |-> 0, opponent |-> 0]
    /\ rounds' = 0
    /\ lastOpponentMove' = NULL

\* The strategy selector's onChange; yourChoice and opponentChoice keep the
\* last round's moves.
changeStrategy(s) ==
    /\ ResetOnChange(s)
    /\ roundLog' = <<>>
    /\ lastGame' = [op |-> "strategy", arg |-> s,
                    scores |-> scores, rounds |-> rounds]
    /\ UNCHANGED <<yourChoice, opponentChoice>>

(***************************************************************************)
(* TopologyViz                                                             *)
(***************************************************************************)
shapes == {"torus", "mobius", "klein"}

\* The state after mount: the effect has started the interval.
InitTopo ==
    /\ shape = "torus"
    /\ rotation = 0
    /\ lastTopo = [op |-> "mount", rotation |-> 0]

\* A plausible slip: the wrap-around compares with > instead of %.
AdvanceNoWrap(r) == IF r + 1 > 360 THEN 0 ELSE r + 1

\* r => (r + 1) % 360
Advance(r) == (r + 1) % 360

\* One firing of the setInterval callback.
tick ==
    /\ rotation' = Advance(rotation)
    /\ lastTopo' = [op |-> "tick", rotation |-> rotation]
    /\ UNCHANGED shape

\* onClick of a shape button.
setShape(s) ==
    /\ shape' = s
    /\ lastTopo' = [op |-> "shape", rotation |-> rotation]
    /\ UNCHANGED rotation

(***************************************************************************)
(* Specifications                                                          *)
(***************************************************************************)
notFractal == <<probVars, gameVars, topoVars>>
notProb == <<fractalVars, gameVars, topoVars>>
notGame == <<fractalVars, probVars, topoVars>>
notTopo == <<fractalVars, probVars, gameVars>>

SetZoom == (\E z \in ZoomValues : setZoom(z)) /\ UNCHANGED notFractal
SetIterations ==
    (\E n \in IterationValues : setIterations(n)) /\ UNCHANGED notFractal

FlipOnce == (\E result \in BOOLEAN : flipOnce(result)) /\ UNCHANGED notProb
RunMany == runMany /\ UNCHANGED notProb
TimerFire ==
    (\E k \in DOMAIN timers, result \in BOOLEAN : timerFire(k, result))
    /\ UNCHANGED notProb
Reset == reset /\ UNCHANGED notProb

Play == (\E choice \in Choices : play(choice)) /\ UNCHANGED notGame
ChangeStrategy ==
    (\E s \in strategies : changeStrategy(s)) /\ UNCHANGED notGame

Tick == tick /\ UNCHANGED notTopo
SetShape == (\E s \in shapes : setShape(s)) /\ UNCHANGED notTopo

Init == InitFractal /\ InitProb /\ InitGame /\ InitTopo

NextFractal == SetZoom \/ SetIterations

NextProbability == FlipOnce \/ RunMany \/ TimerFire \/ Reset

NextGameTheory == Play \/ ChangeStrategy

NextTopology == Tick \/ SetShape

SpecFractal == Init /\ [][NextFractal]_vars

SpecProbability == Init /\ [][NextProbability]_vars

\* A pending setTimeout callback is run by the browser's event loop: a
\* callback that stays pending eventually fires.  Clicks may never come.
SpecProbabilityFair == SpecProbability /\ WF_vars(TimerFire)

\* The same program, observed from the states Reached.
InitLongHistory == InitFractal /\ InitHistory /\ InitGame /\ InitTopo

SpecHistory == InitLongHistory /\ [][NextProbability]_vars

SpecGame == Init /\ [][NextGameTheory]_vars

SpecTopology == Init /\ [][NextTopology]_vars

(***************************************************************************)
(* Properties                                                              *)
(***************************************************************************)
Min(a, b) == IF a < b THEN a ELSE b

IsTrial == lastProb.op \in {"click", "timer"}

\* C4: runTrial (from a click or from a runMany callback) takes (trials,
\* heads, history) to trials + 1, heads or heads + 1, and a history of
\* length min(51, previous length + 1) whose earlier entries are the previous
\* ones in their order, the oldest one dropped exactly when there were 51.
RunTrialTransition ==
    IsTrial =>
        LET old == lastProb.history
            dropped == Len(old) + 1 - Len(history)
        IN  /\ trials = lastProb.trials + 1
            /\ heads \in {lastProb.heads, lastProb.heads + 1}
            /\ Len(history) = Min(HistoryKeep + 1, Len(old) + 1)
            /\ dropped = (IF Len(old) = HistoryKeep + 1 THEN 1 ELSE 0)
            /\ \A i \in 1..(Len(history) - 1) : history[i] = old[i + dropped]

\* A runMany callback has run on a full history and evicted its oldest entry.
RunTrialEvicts ==
    /\ lastProb.op = "timer"
    /\ Len(lastProb.history) = HistoryKeep + 1
    /\ Len(history) = HistoryKeep + 1
    /\ history[1] = lastProb.history[2]

\* C5: the ratio a runTrial invocation appends has denominator trials + 1 and
\* numerator heads + 1 (heads drawn) or heads (tails drawn), for the trials
\* and heads committed just before the invocation: it is the running ratio
\* that holds after it.
AppendedRatioIsRunning ==
    IsTrial =>
        LET r == history[Len(history)]
        IN  /\ r.den = lastProb.trials + 1
            /\ r.num = lastProb.heads + (IF lastProb.result THEN 1 ELSE 0)
            /\ SameRatio(r, Ratio(heads, trials))

\* C6: right after reset, trials = 0, heads = 0 and history is empty,
\* whatever the state before and whether or not callbacks are pending.
ResetClears ==
    lastProb.op = "reset" => trials = 0 /\ heads = 0 /\ history = <<>>

\* reset has run on a non-trivial state with callbacks still pending.
ResetDuringBurst ==
    /\ lastProb.op = "reset"
    /\ lastProb.heads > 0
    /\ lastProb.history # <<>>
    /\ lastProb.pending > 0
    /\ PendingCount = lastProb.pending

\* C9: no update is lost and no callback is cancelled.  Without a reset,
\* trials plus the callbacks still pending is BurstSize per runMany plus the
\* manual trials; after a reset issued with p callbacks pending, trials plus
\* the callbacks still pending is at least p; and every scheduled callback
\* eventually fires, after which nothing is pending.
BurstCompletes ==
    /\ [](nResets = 0 => trials + PendingCount = nClicks + BurstSize * nBursts)
    /\ [](nResets > 0 => trials + PendingCount >= pendingAtReset)
    /\ <>[](PendingCount = 0)

\* A burst has completed after a reset that came while it was in flight.
BurstSurvivesReset ==
    /\ nResets = 1
    /\ nBursts = 1
    /\ pendingAtReset > 0
    /\ pendingAtReset < BurstSize
    /\ PendingCount = 0
    /\ trials = pendingAtReset

\* C10: between handlers and callbacks, 0 <= heads <= trials.
HeadsWithinTrials == heads >= 0 /\ heads <= trials

\* Two bursts are in flight at once, after a heads and a tails.
OverlappingBursts ==
    /\ Len(timers) = 2
    /\ heads > 0
    /\ heads < trials

\* C8: for every zoom and iteration count of the sliders and every pixel,
\* the escape loop ends with a count i in [0, iterations]; the pixel is
\* painted black (saturation 0, lightness 0) exactly when i = iterations, and
\* at saturation 100, lightness 50 when i < iterations.
EscapeCountClassifies ==
    \A p \in DOMAIN canvas :
        LET px == canvas[p]
        IN  /\ px.i \in 0..iterations
            /\ px.i = iterations <=> (px.saturation = 0 /\ px.lightness = 0)
            /\ px.i < iterations => px.saturation = 100 /\ px.lightness = 50

\* A zoomed render at the slider's highest count holds a pixel that never
\* escaped, one that escaped at once and one that escaped later.
BothClassesPainted ==
    /\ zoom > ZoomMin
    /\ iterations = IterationsMax
    /\ \E p \in Pixels : canvas[p].i = iterations
    /\ \E p \in Pixels : canvas[p].i \in 1..3
    /\ \E p \in Pixels : canvas[p].i > 3 /\ canvas[p].i < iterations

\* C1: under tit-for-tat the opponent's move in round 1 (the first play after
\* mount or after a strategy change) is cooperate, and in round n + 1 it is
\* the human's choice of round n.
TitForTatFollows ==
    opponentStrategy = "tit-for-tat" =>
        \A n \in 1..Len(roundLog) :
            roundLog[n].opp =
                (IF n = 1 THEN "cooperate" ELSE roundLog[n - 1].you)

\* Tit-for-tat has answered a defection and then a cooperation.
TitForTatRetaliates ==
    /\ opponentStrategy = "tit-for-tat"
    /\ lastGame.op = "play"
    /\ Len(roundLog) = 3
    /\ roundLog[1].you = "defect"
    /\ roundLog[2].you = "cooperate"
    /\ roundLog[2].opp = "defect"
    /\ roundLog[3].opp = "cooperate"

\* C2: the selector's onChange leaves scores = {0, 0}, rounds = 0,
\* lastOpponentMove = null and opponentStrategy = the selected value.
StrategyChangeResets ==
    lastGame.op = "strategy" =>
        /\ scores = [you |-> 0, opponent |-> 0]
        /\ rounds = 0
        /\ lastOpponentMove = NULL
        /\ opponentStrategy = lastGame.arg

\* The strategy has been changed in the middle of a game.
StrategyChangedMidGame ==
    /\ lastGame.op = "strategy"
    /\ lastGame.rounds > 1
    /\ lastGame.scores.you > 0
    /\ lastGame.scores.opponent > 0
    /\ yourChoice # NULL

\* C3: play(choice) adds the Prisoner's Dilemma payoff of (choice, opponent
\* move) to the scores, adds 1 to rounds and remembers choice; against the
\* cooperate strategy, cooperate yields (+3, +3) and defect (+5, +0).
PlayAccumulates ==
    lastGame.op = "play" =>
        LET c == lastGame.arg
            o == opponentChoice
            gain == <<scores.you - lastGame.scores.you,
                      scores.opponent - lastGame.scores.opponent>>
        IN  /\ yourChoice = c
            /\ c = "cooperate" /\ o = "cooperate" => gain = <<3, 3>>
            /\ c = "cooperate" /\ o = "defect" => gain = <<0, 5>>
            /\ c = "defect" /\ o = "cooperate" => gain = <<5, 0>>
            /\ c = "defect" /\ o = "defect" => gain = <<1, 1>>
            /\ o \in Choices
            /\ rounds = lastGame.rounds + 1
            /\ lastOpponentMove = c
            /\ opponentStrategy = "cooperate" =>
                  gain = (IF c = "cooperate" THEN <<3, 3>> ELSE <<5, 0>>)

\* A defection against the cooperate strategy, on top of earlier scores.
DefectAgainstCooperator ==
    /\ lastGame.op = "play"
    /\ opponentStrategy = "cooperate"
    /\ lastGame.arg = "defect"
    /\ lastGame.rounds > 0
    /\ scores.you = lastGame.scores.you + 5

\* C7: a timer tick takes the angle to (angle + 1) mod 360, 359 to 0; the
\* angle is always an integer in [0, 360); a shape change leaves it alone.
AngleAdvances ==
    /\ rotation \in 0..359
    /\ lastTopo.op = "tick" =>
          rotation = (IF lastTopo.rotation = 359 THEN 0
                      ELSE lastTopo.rotation + 1)
    /\ lastTopo.op = "shape" => rotation = lastTopo.rotation

\* The tick at 359 has wrapped.
AngleWrapped ==
    /\ lastTopo.op = "tick"
    /\ lastTopo.rotation = 359
    /\ rotation = 0
    /\ shape # "torus"

=============================================================================
